---- MODULE Spec2Model ----
(***************************************************************************)
(* HK MPF cut planner of ravenorb/mts: the parser parse_hk_mpf, the ring    *)
(* and skeleton geometry built from its result, the two text-to-text       *)
(* transforms export_reordered_mpf and generate_skeleton_mpf, the round    *)
(* trip of a generated text through the parser, and the request handlers   *)
(* that persist the results, alone and as coroutines of one event loop.    *)
(*                                                                         *)
(* Text representation.  A text is the sequence of its lines *with* their  *)
(* terminators (what str.splitlines(keepends=True) returns): each element  *)
(* is [body, eol], eol being "LF", "CRLF" or "" (no terminator, only       *)
(* possible on the last line, whose body is then non-empty).  A line body  *)
(* is a sequence of tokens [k, call, v]: k is the word as written, call    *)
(* says whether it is followed by "(...)", v holds its numbers as decimals *)
(* [m, e] (mantissa and number of digits after the point).  A float is a   *)
(* decimal with 5 digits after the point.                                  *)
(***************************************************************************)
EXTENDS Integers, Sequences, FiniteSets, TLC

VARIABLES
    pc,             \* position of the transform call: "start" | "done"
    original_text,  \* argument original_text of either transform
    order,          \* argument order of export_reordered_mpf
    skeletonCuts,   \* model_with_skeleton["skeletonCuts"]
    ret,            \* outcome of export_reordered_mpf with its locals
    skel,           \* outcome of generate_skeleton_mpf with its locals
    rounds,         \* how often a generated text was fed back as original
    jobs,           \* CutJob rows; jobs[id] is the content of the file at mpf_path
    gen,            \* gen[id]: the files job_<id>_*.mpf of the gen directory
    artifacts,      \* CutArtifact rows in order of creation
    response,       \* what the last request answered
    dialect,        \* the lines a text given to parse_hk_mpf is made of
    parser,         \* locals of parse_hk_mpf while it loops over the lines
    raw,            \* the line of the last loop iteration
    nread,          \* number of lines the loop has consumed
    program,        \* outcome of parse_hk_mpf
    model2,         \* outcome of compute_skeleton with its locals
    reparsed,       \* outcome of parse_hk_mpf on a generated text
    tasks,          \* the reorder requests in flight: position and locals of each
    running         \* the request whose coroutine holds the event loop, 0 if none

vars == <<pc, original_text, order, skeletonCuts, ret, skel, rounds,
          jobs, gen, artifacts, response, dialect, parser, raw, nread, program,
          model2, reparsed, tasks, running>>
loopVars == <<tasks, running>>
parseVars == <<dialect, parser, raw, nread, program, model2, reparsed>>
callVars == <<pc, original_text, order, skeletonCuts, ret, skel, rounds>>
storeVars == <<jobs, gen, artifacts, response>>

----------------------------------------------------------------------------
(* Bounds *)
MaxLines == 5        \* lines of an original text given to reorder
MaxOrderLen == 2     \* entries of an order list
MaxSkelLines == 3    \* lines of an original text given to append_skeleton
MaxCuts == 2         \* skeleton cuts
MaxRounds == 1       \* re-applications of append_skeleton to its own output
MaxJobs == 2         \* uploaded jobs
MaxArtifacts == 4    \* CutArtifact rows
MaxParseLines == 5   \* lines of a text given to parse_hk_mpf

\* no call of parse_hk_mpf is under way
ParserIdle ==
    /\ dialect = {} /\ parser = <<>> /\ raw = <<>> /\ nread = 0 /\ program = <<>>
    /\ model2 = <<>> /\ reparsed = <<>>
\* no reorder request is in flight
LoopIdle == tasks = <<>> /\ running = 0

----------------------------------------------------------------------------
(* Tokens and lines *)
Tok(k, call, v) == [k |-> k, call |-> call, v |-> v]
W(k) == Tok(k, FALSE, <<>>)
\* a decimal number as written: mantissa m with e digits after the point
\* (Dec(2500, 4) is 0.2500, Num(99) is 99)
Dec(m, e) == [m |-> m, e |-> e]
Num(n) == Dec(n, 0)
Pow10(e) == CASE e = 0 -> 1 [] e = 1 -> 10 [] e = 2 -> 100 [] e = 3 -> 1000
              [] e = 4 -> 10000 [] OTHER -> 100000

\* str.upper() on one word
Upper(k) ==
    CASE k = "hkstr" -> "HKSTR"
      [] k = "hksto" -> "HKSTO"
      [] k = "hkend" -> "HKEND"
      [] k = "m30"   -> "M30"
      [] OTHER       -> k

UpperLine(line) == [i \in 1..Len(line) |-> [line[i] EXCEPT !.k = Upper(line[i].k)]]

IsSpace(t) == t.k = " "

\* str.strip(): leading and trailing whitespace tokens removed
RECURSIVE LStrip(_)
LStrip(line) ==
    IF line # <<>> /\ IsSpace(Head(line)) THEN LStrip(Tail(line)) ELSE line

RECURSIVE RStrip(_)
RStrip(line) ==
    IF line # <<>> /\ IsSpace(line[Len(line)])
    THEN RStrip(SubSeq(line, 1, Len(line) - 1))
    ELSE line

Strip(line) == RStrip(LStrip(line))

\* "KW" in u
Contains(u, kw) == \E i \in 1..Len(u) : u[i].k = kw
\* "KW(" in u
ContainsCall(u, kw) == \E i \in 1..Len(u) : u[i].k = kw /\ u[i].call
\* u.startswith("KW")
StartsWith(u, kw) == u # <<>> /\ u[1].k = kw

----------------------------------------------------------------------------
(* Texts *)
Chunk(body, eol) == [body |-> body, eol |-> eol]

\* str.splitlines(): the bodies, terminators dropped
SplitLines(text) == [i \in 1..Len(text) |-> text[i].body]

\* "\n".join(lines): LF between the lines, none after the last.  A final
\* empty string leaves the text ending in LF, so it is no line of its own.
Join(lines) ==
    LET n == Len(lines)
        m == IF n > 0 /\ lines[n] = <<>> THEN n - 1 ELSE n
    IN [i \in 1..m |-> Chunk(lines[i], IF i < n THEN "LF" ELSE "")]

RECURSIVE Flatten(_)
Flatten(ss) == IF ss = <<>> THEN <<>> ELSE Head(ss) \o Flatten(Tail(ss))

RECURSIVE SeqsUpTo(_, _)
SeqsUpTo(S, n) ==
    IF n = 0 THEN {<<>>}
    ELSE LET shorter == SeqsUpTo(S, n - 1)
         IN shorter \cup {Append(s, x) : s \in {t \in shorter : Len(t) = n - 1}, x \in S}

\* the texts made of the given lines: LF between the lines and no final
\* newline, or every line ended by LF, or every line ended by CRLF
TextsOf(lineSeqs) ==
    {Join(ls) : ls \in {l \in lineSeqs : l = <<>> \/ l[Len(l)] # <<>>}}
        \cup {[i \in 1..Len(ls) |-> Chunk(ls[i], "LF")] : ls \in lineSeqs}
        \cup {[i \in 1..Len(ls) |-> Chunk(ls[i], "CRLF")] : ls \in lineSeqs}

----------------------------------------------------------------------------
(* export_reordered_mpf *)

\* one iteration of the scan loop over the lines
ScanStep(st, line) ==
    LET u == UpperLine(Strip(line))
    IN IF ContainsCall(u, "HKSTR")
       THEN [st EXCEPT !.seen_any = TRUE, !.in_block = TRUE, !.cur = <<line>>]
       ELSE IF st.in_block
       THEN IF Contains(u, "HKSTO")
            THEN [st EXCEPT !.blocks = Append(@, Append(st.cur, line)),
                            !.in_block = FALSE, !.cur = <<>>]
            ELSE [st EXCEPT !.cur = Append(@, line)]
       ELSE IF ~st.seen_any
       THEN [st EXCEPT !.preamble = Append(@, line)]
       ELSE [st EXCEPT !.postamble = Append(@, line)]

ScanInit ==
    [blocks |-> <<>>, preamble |-> <<>>, postamble |-> <<>>,
     in_block |-> FALSE, cur |-> <<>>, seen_any |-> FALSE]

RECURSIVE ScanFrom(_, _)
ScanFrom(st, lines) ==
    IF lines = <<>> THEN st ELSE ScanFrom(ScanStep(st, Head(lines)), Tail(lines))

Scan(lines) == ScanFrom(ScanInit, lines)

\* len(order) != len(blocks)
LengthMismatchOnlyIfShorter(ord, blocks) == Len(ord) < Len(blocks)

LengthMismatch(ord, blocks) == Len(ord) # Len(blocks)

\* Python list indexing blocks[i] with a 0-based, possibly negative, index
IndexInRange(blocks, i) == -Len(blocks) <= i /\ i < Len(blocks)
PyIndex(blocks, i) == IF i >= 0 THEN blocks[i + 1] ELSE blocks[Len(blocks) + i + 1]

\* [blocks[cid - 1] for cid in order]
NewBlocksFromEnd(blocks, ord) == [k \in 1..Len(ord) |-> PyIndex(blocks, -ord[k])]

NewBlocks(blocks, ord) == [k \in 1..Len(ord) |-> PyIndex(blocks, ord[k] - 1)]

\* out = preamble + new_blocks... + postamble
Assemble(preamble, new_blocks, postamble) ==
    preamble \o Flatten(new_blocks) \o postamble

NoReturn == [status |-> "none", lines |-> <<>>, blocks |-> <<>>, preamble |-> <<>>,
             postamble |-> <<>>, out |-> <<>>, text |-> <<>>]

export_reordered_mpf(text, ord) ==
    LET lines == SplitLines(text)
        st == Scan(lines)
        found == [NoReturn EXCEPT !.lines = lines, !.blocks = st.blocks,
                                  !.preamble = st.preamble, !.postamble = st.postamble]
    IN IF LengthMismatch(ord, st.blocks)
       THEN [found EXCEPT !.status = "length_mismatch"]
       ELSE IF \E k \in 1..Len(ord) : ~IndexInRange(st.blocks, ord[k] - 1)
       THEN [found EXCEPT !.status = "index_error"]
       ELSE LET out == Assemble(st.preamble, NewBlocks(st.blocks, ord), st.postamble)
            IN [found EXCEPT !.status = "ok", !.out = out, !.text = Join(out)]

----------------------------------------------------------------------------
(* generate_skeleton_mpf *)

prog_id == 990001
tech == 99
HeaderLineNo == 900000
FirstCutLineNo == 900010
LineNoStep == 10

\* f"{x:.4f}": the nearest multiple of 0.0001, an exact tie going to the even
\* digit
Fmt4(x) ==
    IF x.e <= 4 THEN Dec(x.m * Pow10(4 - x.e), 4)
    ELSE LET q == x.m \div 10
             r == x.m % 10
         IN IF r < 5 THEN Dec(q, 4)
            ELSE IF r > 5 THEN Dec(q + 1, 4)
            ELSE IF q % 2 = 0 THEN Dec(q, 4) ELSE Dec(q + 1, 4)

\* insert_at: 0-based index of the first line containing HKEND or starting
\* (after strip) with M30, else len(lines)
IsEndMarker(ln) ==
    \/ Contains(UpperLine(ln), "HKEND")
    \/ StartsWith(Strip(UpperLine(ln)), "M30")

InsertAtEnd(lines) == Len(lines)

InsertAt(lines) ==
    IF \E i \in 1..Len(lines) : IsEndMarker(lines[i])
    THEN (CHOOSE i \in 1..Len(lines) :
              IsEndMarker(lines[i]) /\ \A j \in 1..(i - 1) : ~IsEndMarker(lines[j])) - 1
    ELSE Len(lines)

\* "N900000 HKOST(0.0,0.0,0.0,{prog_id},{tech},0,0,0)"
HeaderLine ==
    <<Tok("N", FALSE, <<Num(HeaderLineNo)>>), W(" "),
      Tok("HKOST", TRUE, <<Dec(0, 1), Dec(0, 1), Dec(0, 1), Num(prog_id), Num(tech),
                           Num(0), Num(0), Num(0)>>)>>

Stub(k) == <<Tok(k, TRUE, <<Num(0), Num(0), Num(0)>>)>>
G1To(p) == <<W("G1"), W(" "), Tok("X", FALSE, <<Fmt4(p[1])>>), W(" "),
             Tok("Y", FALSE, <<Fmt4(p[2])>>)>>

\* the seven lines appended for one cut, its HKSTR line numbered n
CutLinesNoLeadIn(cut, n) ==
    << <<Tok("N", FALSE, <<Num(n)>>), W(" "),
         Tok("HKSTR", TRUE, <<Num(0), Num(1), Fmt4(cut.a[1]), Fmt4(cut.a[2]),
                              Num(0), Num(0), Num(0), Num(0)>>)>>,
       Stub("HKPIE"), Stub("HKCUT"), G1To(cut.a), G1To(cut.b), Stub("HKSTO") >>

CutLines(cut, n) ==
    << <<Tok("N", FALSE, <<Num(n)>>), W(" "),
         Tok("HKSTR", TRUE, <<Num(0), Num(1), Fmt4(cut.a[1]), Fmt4(cut.a[2]),
                              Num(0), Num(0), Num(0), Num(0)>>)>>,
       Stub("HKPIE"), Stub("HKLEA"), Stub("HKCUT"),
       G1To(cut.a), G1To(cut.b), Stub("HKSTO") >>

\* the loop over skeletonCuts: appends each cut's lines, n += 10 per cut, and
\* the HKPED line numbered with the final n
RECURSIVE AppendCuts(_, _, _)
AppendCuts(out, cuts, n) ==
    IF cuts = <<>>
    THEN Append(out, <<Tok("N", FALSE, <<Num(n)>>), W(" "),
                       Tok("HKPED", TRUE, <<Num(0), Num(0), Num(0)>>)>>)
    ELSE AppendCuts(out \o CutLines(Head(cuts), n), Tail(cuts), n + LineNoStep)

\* lines[insert_at:]
TailFrom(lines, insert_at) == SubSeq(lines, insert_at + 1, Len(lines))

NoSkel == [status |-> "none", lines |-> <<>>, insert_at |-> 0, out |-> <<>>, text |-> <<>>]

generate_skeleton_mpf(text, cuts) ==
    LET lines == SplitLines(text)
        insert_at == InsertAt(lines)
        head == Append(SubSeq(lines, 1, insert_at), HeaderLine)
        out == AppendCuts(head, cuts, FirstCutLineNo) \o TailFrom(lines, insert_at)
    IN [status |-> "ok", lines |-> lines, insert_at |-> insert_at,
        out |-> out, text |-> Join(out)]

----------------------------------------------------------------------------
(* Specification of the reorder transform: one call on bounded inputs *)

LineHKSTR == <<Tok("N", FALSE, <<Num(10)>>), W(" "), Tok("HKSTR", TRUE, <<Num(0), Num(1), Num(0), Num(0)>>)>>
LineHKSTO == <<W(" "), Tok("hksto", TRUE, <<Num(0), Num(0), Num(0)>>)>>
LineG1 == <<W("G1"), Tok("X", FALSE, <<Num(1)>>)>>

ReorderLines == {LineHKSTR, LineHKSTO, LineG1}
\* programs with placements: "HKOST(ox,0,0,id,1)" opens a part and
\* "N<id> HKSTR(0,1,x,x)" the contour of the parts registered under id
LineHKOSTAt(ox, id) ==
    <<Tok("HKOST", TRUE, <<Num(ox), Num(0), Num(0), Num(id), Num(1)>>)>>
LineHKSTRNo(id, x) ==
    <<Tok("N", FALSE, <<Num(id)>>), W(" "),
      Tok("HKSTR", TRUE, <<Num(0), Num(1), Num(x), Num(x)>>)>>
\* one contour body placed twice
TextPlacedTwice ==
    Join(<<LineHKOSTAt(0, 5), LineHKOSTAt(3, 5), LineHKSTRNo(5, 0), LineHKSTO>>)
\* two parts whose contour bodies follow in the other order
TextPlacedCrossed ==
    Join(<<LineHKOSTAt(0, 5), LineHKOSTAt(0, 7),
           LineHKSTRNo(7, 2), LineHKSTO, LineHKSTRNo(5, 0), LineHKSTO>>)
ReorderTexts ==
    TextsOf(SeqsUpTo(ReorderLines, MaxLines)) \cup {TextPlacedTwice, TextPlacedCrossed}
Orders == SeqsUpTo(0..(MaxOrderLen + 1), MaxOrderLen)

InitReorder ==
    /\ pc = "start"
    /\ original_text \in ReorderTexts
    /\ order \in Orders
    /\ skeletonCuts = <<>>
    /\ ret = NoReturn
    /\ skel = NoSkel
    /\ rounds = 0
    /\ jobs = <<>> /\ gen = <<>> /\ artifacts = <<>> /\ response = "none"
    /\ ParserIdle
    /\ LoopIdle

ExportReordered ==
    /\ pc = "start"
    /\ ret' = export_reordered_mpf(original_text, order)
    /\ pc' = "done"
    /\ UNCHANGED <<original_text, order, skeletonCuts, skel, rounds>>
    /\ UNCHANGED storeVars
    /\ UNCHANGED parseVars
    /\ UNCHANGED loopVars

NextReorder == ExportReordered

SpecReorder == InitReorder /\ [][NextReorder]_vars

----------------------------------------------------------------------------
(* Properties of export_reordered_mpf, stated on the original text *)

OrigLines == [i \in 1..Len(original_text) |-> original_text[i].body]
IsStartLine(l) == \E i \in 1..Len(l) : l[i].k \in {"HKSTR", "hkstr"} /\ l[i].call
IsStopLine(l) == \E i \in 1..Len(l) : l[i].k \in {"HKSTO", "hksto"}

\* <<s, e>>: an HKSTR( line s and the first HKSTO line e after it, no other
\* HKSTR( line from s+1 to e
BlockSpans ==
    LET n == Len(OrigLines)
    IN {sp \in (1..n) \X (1..n) :
          /\ sp[1] < sp[2]
          /\ IsStartLine(OrigLines[sp[1]])
          /\ IsStopLine(OrigLines[sp[2]]) /\ ~IsStartLine(OrigLines[sp[2]])
          /\ \A j \in (sp[1] + 1)..(sp[2] - 1) :
                ~IsStartLine(OrigLines[j]) /\ ~IsStopLine(OrigLines[j])}
NumBlocks == Cardinality(BlockSpans)
\* the k-th span in order of appearance
SpanNo(k) == CHOOSE sp \in BlockSpans :
                 Cardinality({q \in BlockSpans : q[1] < sp[1]}) = k - 1
BlockText(k) == SubSeq(OrigLines, SpanNo(k)[1], SpanNo(k)[2])
RECURSIVE ConcatBlocks(_)
ConcatBlocks(ks) ==
    IF ks = <<>> THEN <<>> ELSE BlockText(Head(ks)) \o ConcatBlocks(Tail(ks))
PermSeqs(n) == {p \in [1..n -> 1..n] : \A i, j \in 1..n : p[i] = p[j] => i = j}
StartLineIdx == {i \in 1..Len(OrigLines) : IsStartLine(OrigLines[i])}
Min(S) == CHOOSE x \in S : \A y \in S : x <= y
\* text is the lines joined by LF: LF after every line but the last, and a
\* last line that is empty leaves nothing after the final LF
IsLfJoin(text, lines) ==
    LET n == Len(lines)
        m == IF n > 0 /\ lines[n] = <<>> THEN n - 1 ELSE n
    IN /\ Len(text) = m
       /\ \A i \in 1..m :
            text[i].body = lines[i] /\ text[i].eol = (IF i < n THEN "LF" ELSE "")

\* C1: reorder raises the length-mismatch error exactly when the length of
\* order differs from the number of HKSTR(..HKSTO blocks of the original text.
C1_LengthMismatchIff ==
    pc = "done" => (ret.status = "length_mismatch" <=> Len(order) # NumBlocks)

C1_Witness ==
    /\ pc = "done" /\ ret.status = "length_mismatch"
    /\ NumBlocks = 2 /\ Len(order) = 1

\* C2: on success with every order entry in 1..n, the output lines are the
\* preamble, then the blocks order[1], order[2], ... of the original text (in
\* 1-based order of appearance, each contiguous and unchanged), then the
\* postamble; the returned text is these lines joined by LF.
C2_Reassembly ==
    (pc = "done" /\ ret.status = "ok" /\ \A k \in 1..Len(order) : order[k] \in 1..NumBlocks)
        => /\ ret.out = ret.preamble \o ConcatBlocks(order) \o ret.postamble
           /\ IsLfJoin(ret.text, ret.out)

C2_Witness ==
    /\ pc = "done" /\ ret.status = "ok"
    /\ order = <<2, 1>>
    /\ NumBlocks = 2 /\ BlockText(1) # BlockText(2)
    /\ ret.out = BlockText(2) \o BlockText(1)

\* C3: the preamble is the lines before the first HKSTR( line, every block is
\* an HKSTR( line through its HKSTO line, the postamble is the lines after the
\* last block, and the output starts with the preamble and ends with the
\* postamble.
C3_Partition ==
    pc = "done" =>
        /\ ret.preamble = (IF StartLineIdx = {} THEN OrigLines
                           ELSE SubSeq(OrigLines, 1, Min(StartLineIdx) - 1))
        /\ Len(ret.blocks) = NumBlocks
        /\ \A k \in 1..NumBlocks : ret.blocks[k] = BlockText(k)
        /\ NumBlocks > 0 =>
              ret.postamble = SubSeq(OrigLines, SpanNo(NumBlocks)[2] + 1, Len(OrigLines))
        /\ ret.status = "ok" =>
              /\ SubSeq(ret.out, 1, Len(ret.preamble)) = ret.preamble
              /\ SubSeq(ret.out, Len(ret.out) - Len(ret.postamble) + 1, Len(ret.out))
                    = ret.postamble

\* C4: whenever reorder succeeds, the output holds every block of the
\* original text exactly once: between preamble and postamble it is the
\* blocks in some permutation.
C4_EveryBlockOnce ==
    (pc = "done" /\ ret.status = "ok") =>
        \E p \in PermSeqs(NumBlocks) :
            ret.out = ret.preamble \o ConcatBlocks(p) \o ret.postamble

\* C5: for every list of integers as order, reorder returns text or fails
\* with the length-mismatch error; no other outcome.
C5_OnlyLengthMismatchFails ==
    pc = "done" => ret.status \in {"ok", "length_mismatch"}

----------------------------------------------------------------------------
(* Specification of the append-skeleton transform: a call on bounded        *)
(* inputs, whose output may be given back to it as the next original text  *)

\* "N900020 G1 M30": M30 is not at the start of the line
LineN20 == <<Tok("N", FALSE, <<Num(900020)>>), W(" "), W("G1"), W(" "), W("M30")>>
LineHKEND == <<Tok("N", FALSE, <<Num(30)>>), W(" "), W("hkend")>>
LineM30 == <<W(" "), W("m30")>>
LineEmpty == <<>>

SkelLines == {LineN20, LineHKEND, LineM30, LineEmpty}
SkelTexts == TextsOf(SeqsUpTo(SkelLines, MaxSkelLines))

\* chords on the sheet; no coordinate is an exact tie of the 4-digit rounding
Chords == {<<(<<Dec(0, 5), Dec(250000, 5)>>), (<<Dec(1000007, 5), Dec(250000, 5)>>)>>,
           <<(<<Dec(333333, 5), Dec(0, 5)>>), (<<Dec(333333, 5), Dec(1000000, 5)>>)>>}
CutLists ==
    {[i \in 1..Len(cs) |-> [id |-> i, a |-> cs[i][1], b |-> cs[i][2]]] :
        cs \in SeqsUpTo(Chords, MaxCuts)}

InitSkeleton ==
    /\ pc = "start"
    /\ original_text \in SkelTexts
    /\ skeletonCuts \in CutLists
    /\ order = <<>>
    /\ ret = NoReturn
    /\ skel = NoSkel
    /\ rounds = 0
    /\ jobs = <<>> /\ gen = <<>> /\ artifacts = <<>> /\ response = "none"
    /\ ParserIdle
    /\ LoopIdle

GenerateSkeleton ==
    /\ pc = "start"
    /\ skel' = generate_skeleton_mpf(original_text, skeletonCuts)
    /\ pc' = "done"
    /\ UNCHANGED <<original_text, order, skeletonCuts, ret, rounds>>
    /\ UNCHANGED storeVars
    /\ UNCHANGED parseVars
    /\ UNCHANGED loopVars

\* the generated file is uploaded as a new original
FeedBack ==
    /\ pc = "done"
    /\ rounds < MaxRounds
    /\ original_text' = skel.text
    /\ skel' = NoSkel
    /\ rounds' = rounds + 1
    /\ pc' = "start"
    /\ UNCHANGED <<order, skeletonCuts, ret>>
    /\ UNCHANGED storeVars
    /\ UNCHANGED parseVars
    /\ UNCHANGED loopVars

NextSkeleton == GenerateSkeleton \/ FeedBack

SpecSkeleton == InitSkeleton /\ [][NextSkeleton]_vars

----------------------------------------------------------------------------
(* Properties of generate_skeleton_mpf, stated on the original text *)

FirstWord(l) ==
    LET idx == {i \in 1..Len(l) : l[i].k # " "}
    IN IF idx = {} THEN W("") ELSE l[Min(idx)]
IsEndLine(l) ==
    \/ \E i \in 1..Len(l) : l[i].k \in {"HKEND", "hkend"}
    \/ FirstWord(l).k \in {"M30", "m30"}
\* k: the number of lines before the first HKEND / M30 line
InsertionPoint ==
    LET ends == {i \in 1..Len(OrigLines) : IsEndLine(OrigLines[i])}
    IN IF ends = {} THEN Len(OrigLines) ELSE Min(ends) - 1
BlockLen == 2 + 7 * Len(skeletonCuts)
SyntheticBlock == SubSeq(skel.out, InsertionPoint + 1, InsertionPoint + BlockLen)
CallWord(l) ==
    LET idx == {i \in 1..Len(l) : l[i].call \/ l[i].k = "G1"}
    IN IF idx = {} THEN W("") ELSE l[Min(idx)]
ArgOf(l, k) == (CHOOSE t \in {l[i] : i \in 1..Len(l)} : t.k = k).v[1]
\* d is x written with 4 digits after the point
Rounded4(d, x) == d.e = 4 /\ x.e = 5 /\ 10 * d.m - x.m \in -5..5
IsMoveTo(l, p) ==
    /\ CallWord(l).k = "G1"
    /\ Rounded4(ArgOf(l, "X"), p[1]) /\ Rounded4(ArgOf(l, "Y"), p[2])
IsStub(l, k) == l = <<Tok(k, TRUE, <<Num(0), Num(0), Num(0)>>)>>
NumberedLines(ls) == {i \in 1..Len(ls) : FirstWord(ls[i]).k \in {"N", "n"}}
LineNumbers(ls) == {FirstWord(ls[i]).v[1].m : i \in NumberedLines(ls)}

\* C7: the output is lines[0..k) ++ synthetic block ++ lines[k..], k the
\* index of the first line containing HKEND or starting with M30 (the number
\* of lines if there is none); deleting the block gives the original lines
\* back; the returned text is these lines joined by LF.
C7_InsertedAtEndMarker ==
    pc = "done" =>
        LET k == InsertionPoint
            n == Len(OrigLines)
        IN /\ skel.insert_at = k
           /\ Len(skel.out) = n + BlockLen
           /\ SubSeq(skel.out, 1, k) = SubSeq(OrigLines, 1, k)
           /\ SubSeq(skel.out, k + BlockLen + 1, n + BlockLen) = SubSeq(OrigLines, k + 1, n)
           /\ SubSeq(skel.out, 1, k) \o SubSeq(skel.out, k + BlockLen + 1, n + BlockLen)
                 = OrigLines
           /\ IsLfJoin(skel.text, skel.out)

C7_Witness ==
    /\ pc = "done" /\ rounds = 0
    /\ Len(skeletonCuts) = 1
    /\ Len(OrigLines) = 3 /\ InsertionPoint = 1
    /\ OrigLines[1] = LineN20 /\ OrigLines[2] = LineM30

\* C9: the synthetic block is one HKOST header (offsets zero, program id
\* 990001, tech 99), then per cut, in list order, the seven lines HKSTR at a,
\* HKPIE, HKLEA, HKCUT, G1 to a, G1 to b, HKSTO, then one HKPED line:
\* 2 + 7 * (number of cuts) lines.
C9_BlockShape ==
    pc = "done" =>
        LET B == SyntheticBlock
            hdr == CallWord(B[1])
        IN /\ Len(skel.out) - Len(OrigLines) = 2 + 7 * Len(skeletonCuts)
           /\ hdr.k = "HKOST" /\ hdr.v[1].m = 0 /\ hdr.v[2].m = 0
           /\ hdr.v[4] = Num(990001) /\ hdr.v[5] = Num(99)
           /\ \A j \in 1..Len(skeletonCuts) :
                LET c == skeletonCuts[j]
                    o == 1 + 7 * (j - 1)
                    str == CallWord(B[o + 1])
                IN /\ c.id = j
                   /\ str.k = "HKSTR"
                   /\ Rounded4(str.v[3], c.a[1]) /\ Rounded4(str.v[4], c.a[2])
                   /\ IsStub(B[o + 2], "HKPIE")
                   /\ IsStub(B[o + 3], "HKLEA")
                   /\ IsStub(B[o + 4], "HKCUT")
                   /\ IsMoveTo(B[o + 5], c.a)
                   /\ IsMoveTo(B[o + 6], c.b)
                   /\ IsStub(B[o + 7], "HKSTO")
           /\ CallWord(B[Len(B)]).k = "HKPED"
           /\ Cardinality({i \in 1..Len(B) : CallWord(B[i]).k = "HKOST"}) = 1
           /\ Cardinality({i \in 1..Len(B) : CallWord(B[i]).k = "HKPED"}) = 1

C9_Witness ==
    /\ pc = "done"
    /\ Len(skeletonCuts) = 2 /\ skeletonCuts[1] # skeletonCuts[2]
    /\ Len(SyntheticBlock) = 16

\* C8: the untouched lines keep their bytes: every original line that has a
\* terminator (LF or CRLF, a final newline included) is in the output with
\* the same body and the same terminator.
C8_TerminatorsPreserved ==
    pc = "done" =>
        \A i \in 1..Len(original_text) :
            LET pos == IF i <= InsertionPoint THEN i ELSE i + BlockLen
            IN original_text[i].eol # "" =>
                 /\ pos <= Len(skel.text)
                 /\ skel.text[pos] = original_text[i]

\* C10: no N<number> of the synthetic block is an N<number> of the original
\* text, and the block's line numbers are pairwise distinct.
C10_NoLineNumberCollision ==
    pc = "done" =>
        LET B == SyntheticBlock
        IN /\ LineNumbers(B) \cap LineNumbers(OrigLines) = {}
           /\ \A i, j \in NumberedLines(B) :
                FirstWord(B[i]).v[1].m = FirstWord(B[j]).v[1].m => i = j

----------------------------------------------------------------------------
(* parse_hk_mpf *)
(*                                                                         *)
(* A float is an integer count of 0.00001; None is the empty sequence and  *)
(* a value v that may be None is <<v>>.  A part or a contour referred to   *)
(* by the parser's locals is its index in the list that holds it.          *)

\* whether float(v) is inf: a written number with e < 0 stands for m followed
\* by -e zeros, and the inputs have only one such literal, 1 followed by 400
\* zeros
IsInf(d) == d.e < 0
\* float(v) of a number within the float range
float(d) == d.m * Pow10(5 - d.e)
\* int(vals[i]) of a float that is not inf: truncation toward zero
int(d) ==
    IF d.m >= 0 THEN d.m \div Pow10(d.e) ELSE -((-d.m) \div Pow10(d.e))

\* re.search(rf"{keyword}\(([^)]*)\)", line): the numbers of the first
\* keyword(...) of the line, [] when there is none
extract_call_floats(u, keyword) ==
    IF ContainsCall(u, keyword)
    THEN u[CHOOSE i \in 1..Len(u) : /\ u[i].k = keyword /\ u[i].call
                                     /\ \A j \in 1..(i - 1) : ~(u[j].k = keyword /\ u[j].call)].v
    ELSE <<>>

\* RE_X.search(u) and its like: the number of the first address letter that
\* stands at a word boundary and carries a number ending at one
RE_search(u, letter) ==
    LET hits == {i \in 1..Len(u) :
                    /\ u[i].k = letter /\ ~u[i].call /\ u[i].v # <<>>
                    /\ i = 1 \/ IsSpace(u[i - 1])
                    /\ i = Len(u) \/ IsSpace(u[i + 1])}
    IN IF hits = {} THEN <<>>
       ELSE <<u[CHOOSE i \in hits : \A j \in hits : i <= j].v[1]>>

\* re.match(r"N(\d+)", u)
line_no(u) ==
    IF StartsWith(u, "N") /\ ~u[1].call /\ u[1].v # <<>> /\ u[1].v[1].e = 0 /\ u[1].v[1].m >= 0
    THEN <<u[1].v[1].m>>
    ELSE <<>>

\* part_starts.get(line_no or -1): None and 0 both look up -1
PlacementKey(ln) == IF ln = <<>> \/ ln[1] = 0 THEN -1 ELSE ln[1]

\* part_starts.get(key): the parts registered under key, in order of
\* registration
RECURSIVE Registered(_, _)
Registered(part_starts, key) ==
    IF part_starts = <<>> THEN <<>>
    ELSE IF Head(part_starts)[1] = key
         THEN <<Head(part_starts)[2]>> \o Registered(Tail(part_starts), key)
         ELSE Registered(Tail(part_starts), key)

ParserInit ==
    [status |-> "running", x |-> 0, y |-> 0, cut_on |-> FALSE,
     sheet |-> [width |-> <<>>, height |-> <<>>],
     parts |-> <<>>, current_part |-> 0, current_contours |-> <<>>,
     part_starts |-> <<>>]

\* if u.startswith("HKINI")
OnHKINITwoNumbers(st, u) ==
    LET vals == extract_call_floats(u, "HKINI")
    IN IF Len(vals) >= 2
       THEN [st EXCEPT !.sheet.width = <<float(vals[2])>>]
       ELSE st

OnHKINI(st, u) ==
    LET vals == extract_call_floats(u, "HKINI")
    IN IF Len(vals) >= 3
       THEN [st EXCEPT !.sheet = [width |-> <<float(vals[2])>>, height |-> <<float(vals[3])>>]]
       ELSE st

\* if "HKOST(" in u
OnHKOST(st, u) ==
    LET vals == extract_call_floats(u, "HKOST")
    IN IF \E i \in {4, 5} : Len(vals) >= i /\ IsInf(vals[i])
       THEN [st EXCEPT !.status = "OverflowError"]
       ELSE
       LET program_id == IF Len(vals) >= 4 THEN <<int(vals[4])>> ELSE <<>>
           tech_ == IF Len(vals) >= 5 THEN <<int(vals[5])>> ELSE <<>>
           part == [program_id |-> program_id, tech |-> tech_,
                    offset |-> <<IF Len(vals) >= 1 THEN float(vals[1]) ELSE 0,
                                 IF Len(vals) >= 2 THEN float(vals[2]) ELSE 0>>,
                    contours |-> <<>>]
           k == Len(st.parts) + 1
       IN [st EXCEPT !.parts = Append(@, part),
                     !.current_part = k,
                     !.part_starts = IF program_id # <<>>
                                     THEN Append(@, <<program_id[1], k>>) ELSE @]

ImplicitPart ==
    [program_id |-> <<>>, tech |-> <<>>, offset |-> <<0, 0>>, contours |-> <<>>]

\* if "HKSTR(" in u
OnHKSTR(st, u) ==
    LET vals == extract_call_floats(u, "HKSTR")
        registered == Registered(st.part_starts, PlacementKey(line_no(u)))
        implicit == registered = <<>> /\ st.current_part = 0
        parts1 == IF implicit THEN Append(st.parts, ImplicitPart) ELSE st.parts
        cur1 == IF implicit THEN Len(parts1) ELSE st.current_part
        placements == IF registered # <<>> THEN registered ELSE <<cur1>>
        contour == [type |-> IF Len(vals) >= 1 /\ int(vals[1]) # 0 THEN "hole" ELSE "outer",
                    hkstr |-> [i \in 1..Len(vals) |-> float(vals[i])],
                    segments |-> <<>>]
        placed == {placements[i] : i \in 1..Len(placements)}
    IN IF Len(vals) >= 1 /\ IsInf(vals[1]) THEN [st EXCEPT !.status = "OverflowError"]
       ELSE
       [st EXCEPT
          !.x = IF Len(vals) >= 3 THEN float(vals[3]) ELSE @,
          !.y = IF Len(vals) >= 4 THEN float(vals[4]) ELSE @,
          !.parts = [p \in 1..Len(parts1) |->
                        IF p \in placed
                        THEN [parts1[p] EXCEPT !.contours = Append(@, contour)]
                        ELSE parts1[p]],
          !.current_part = cur1,
          !.current_contours =
              [i \in 1..Len(placements) |->
                  [part |-> placements[i],
                   contour |-> Len(parts1[placements[i]].contours) + 1,
                   offset |-> parts1[placements[i]].offset]]]

\* active["contour"]["segments"].append(seg) for every active contour:
\* segs[i] is the segment built for current_contours[i]
AppendSegments(parts, current_contours, segs) ==
    [p \in 1..Len(parts) |->
        LET cs == parts[p].contours
        IN [parts[p] EXCEPT !.contours =
              [c \in 1..Len(cs) |->
                  LET act == {i \in 1..Len(current_contours) :
                                 current_contours[i].part = p /\ current_contours[i].contour = c}
                  IN IF act = {} THEN cs[c]
                     ELSE [cs[c] EXCEPT !.segments =
                              Append(@, segs[CHOOSE i \in act : TRUE])]]]]

\* if u.startswith("G1")
OnG1MissingIsZero(st, u) ==
    LET mx == RE_search(u, "X")
        my == RE_search(u, "Y")
        nx == IF mx # <<>> THEN float(mx[1]) ELSE 0
        ny == IF my # <<>> THEN float(my[1]) ELSE 0
        Seg(off) == [kind |-> "line",
                     a |-> <<st.x + off[1], st.y + off[2]>>,
                     b |-> <<nx + off[1], ny + off[2]>>]
    IN [st EXCEPT !.parts = AppendSegments(@, st.current_contours,
                              [i \in 1..Len(st.current_contours) |->
                                  Seg(st.current_contours[i].offset)]),
                  !.x = nx, !.y = ny]

OnG1(st, u) ==
    LET mx == RE_search(u, "X")
        my == RE_search(u, "Y")
        nx == IF mx # <<>> THEN float(mx[1]) ELSE st.x
        ny == IF my # <<>> THEN float(my[1]) ELSE st.y
        Seg(off) == [kind |-> "line",
                     a |-> <<st.x + off[1], st.y + off[2]>>,
                     b |-> <<nx + off[1], ny + off[2]>>]
    IN [st EXCEPT !.parts = AppendSegments(@, st.current_contours,
                              [i \in 1..Len(st.current_contours) |->
                                  Seg(st.current_contours[i].offset)]),
                  !.x = nx, !.y = ny]

----------------------------------------------------------------------------
(* _arc_points *)
(*                                                                         *)
(* Angles are counted in units of pi/4 and the trigonometry is exact: the  *)
(* inputs keep start - centre and end - centre on the eight compass        *)
(* directions (or zero).  A point is <<x, y>> when it lies a whole number  *)
(* of quarter turns from the start point; any other point of the circle is *)
(* <<cx, cy, vx, vy, t, n>>: the start vector <<vx, vy>> turned about the  *)
(* centre by t/n units.                                                    *)

\* math.atan2(dy, dx), in (-4, 4]
atan2(dy, dx) ==
    CASE dy = 0 /\ dx >= 0 -> 0
      [] dy = 0 /\ dx < 0  -> 4
      [] dy > 0 /\ dx > 0  -> 1
      [] dy > 0 /\ dx = 0  -> 2
      [] dy > 0 /\ dx < 0  -> 3
      [] dy < 0 /\ dx > 0  -> -1
      [] dy < 0 /\ dx = 0  -> -2
      [] dy < 0 /\ dx < 0  -> -3

\* if cw: while a1 > a0: a1 -= 2pi    else: while a1 < a0: a1 += 2pi
RECURSIVE Unwind(_, _, _)
Unwind(a0, a1, cw) ==
    IF cw THEN (IF a1 > a0 THEN Unwind(a0, a1 - 8, cw) ELSE a1)
          ELSE (IF a1 < a0 THEN Unwind(a0, a1 + 8, cw) ELSE a1)

Abs(n) == IF n < 0 THEN -n ELSE n

\* int(abs(total) / math.radians(step_deg)) for step_deg = 6: 7.5 per unit,
\* and the double quotient of a whole number of quarter turns falls just
\* below the integer 15, 30 or 45
SweepSteps(total) ==
    LET t == Abs(total)
    IN IF t > 0 /\ t % 2 = 0 THEN (15 * t) \div 2 - 1 ELSE (15 * t) \div 2

\* <<vx, vy>> turned by q quarter turns counterclockwise
RECURSIVE Rot90(_, _)
Rot90(v, q) ==
    IF q % 4 = 0 THEN v ELSE Rot90(<<-v[2], v[1]>>, (q % 4) - 1)

\* [cx + r * cos(a), cy + r * sin(a)] for a = a0 + total * (k / n)
ArcPoint(c, v, t, n) ==
    IF v = <<0, 0>> THEN c
    ELSE IF t % (2 * n) = 0
    THEN LET w == Rot90(v, t \div (2 * n)) IN <<c[1] + w[1], c[2] + w[2]>>
    ELSE <<c[1], c[2], v[1], v[2], t, n>>

MaxOf(a, b) == IF a >= b THEN a ELSE b

arc_points(start, end, i, j, cw) ==
    LET c == <<start[1] + i, start[2] + j>>
        v == <<start[1] - c[1], start[2] - c[2]>>
        a0 == atan2(v[2], v[1])
        a1 == Unwind(a0, atan2(end[2] - c[2], end[1] - c[1]), cw)
        total == a1 - a0
        n == MaxOf(8, SweepSteps(total) + 1)
    IN [k \in 1..(n + 1) |-> ArcPoint(c, v, total * (k - 1), n)]

----------------------------------------------------------------------------
(* parse_hk_mpf, continued *)

\* if u.startswith("G2") or u.startswith("G3")
OnG2G3(st, u) ==
    LET mx == RE_search(u, "X")
        my == RE_search(u, "Y")
        mi == RE_search(u, "I")
        mj == RE_search(u, "J")
    IN IF mx = <<>> \/ my = <<>> \/ mi = <<>> \/ mj = <<>> THEN st
       ELSE
       LET nx == float(mx[1])
           ny == float(my[1])
           Seg(off) == [kind |-> "polyline",
                        points |-> arc_points(<<st.x + off[1], st.y + off[2]>>,
                                              <<nx + off[1], ny + off[2]>>,
                                              float(mi[1]), float(mj[1]),
                                              StartsWith(u, "G2"))]
       IN [st EXCEPT !.parts = AppendSegments(@, st.current_contours,
                                 [i \in 1..Len(st.current_contours) |->
                                     Seg(st.current_contours[i].offset)]),
                     !.x = nx, !.y = ny]

\* one iteration of "for raw in text.splitlines()"
ParseLineStopKeepsContours(st, rawline) ==
    LET line == Strip(rawline)
        u == UpperLine(line)
    IN IF line = <<>> THEN st
       ELSE IF StartsWith(u, "HKINI") THEN OnHKINI(st, u)
       ELSE IF ContainsCall(u, "HKOST") THEN OnHKOST(st, u)
       ELSE IF ContainsCall(u, "HKSTR") THEN OnHKSTR(st, u)
       ELSE IF Contains(u, "HKCUT") THEN [st EXCEPT !.cut_on = TRUE]
       ELSE IF Contains(u, "HKSTO")
            THEN [st EXCEPT !.cut_on = FALSE]
       ELSE IF Contains(u, "HKPED")
            THEN [st EXCEPT !.current_part = 0, !.current_contours = <<>>,
                            !.cut_on = FALSE]
       ELSE IF StartsWith(u, "WHEN") THEN st
       ELSE IF ~st.cut_on \/ st.current_contours = <<>> THEN st
       ELSE IF StartsWith(u, "G1") THEN OnG1(st, u)
       ELSE IF StartsWith(u, "G2") \/ StartsWith(u, "G3") THEN OnG2G3(st, u)
       ELSE st

ParseLine(st, rawline) ==
    LET line == Strip(rawline)
        u == UpperLine(line)
    IN IF line = <<>> THEN st
       ELSE IF StartsWith(u, "HKINI") THEN OnHKINI(st, u)
       ELSE IF ContainsCall(u, "HKOST") THEN OnHKOST(st, u)
       ELSE IF ContainsCall(u, "HKSTR") THEN OnHKSTR(st, u)
       ELSE IF Contains(u, "HKCUT") THEN [st EXCEPT !.cut_on = TRUE]
       ELSE IF Contains(u, "HKSTO")
            THEN [st EXCEPT !.cut_on = FALSE, !.current_contours = <<>>]
       ELSE IF Contains(u, "HKPED")
            THEN [st EXCEPT !.current_part = 0, !.current_contours = <<>>,
                            !.cut_on = FALSE]
       ELSE IF StartsWith(u, "WHEN") THEN st
       ELSE IF ~st.cut_on \/ st.current_contours = <<>> THEN st
       ELSE IF StartsWith(u, "G1") THEN OnG1(st, u)
       ELSE IF StartsWith(u, "G2") \/ StartsWith(u, "G3") THEN OnG2G3(st, u)
       ELSE st

\* cid of the c-th contour of the p-th part: contours are numbered from 1,
\* part after part
RECURSIVE ContoursBefore(_, _)
ContoursBefore(parts, p) ==
    IF p <= 1 THEN 0
    ELSE ContoursBefore(parts, p - 1) + Len(parts[p - 1].contours)

\* the code after the loop: the sheet sizes become floats, every part loses
\* its offset and every contour gets its id
Finish(st) ==
    [sheet |-> [width |-> IF st.sheet.width = <<>> THEN 0 ELSE st.sheet.width[1],
                height |-> IF st.sheet.height = <<>> THEN 0 ELSE st.sheet.height[1]],
     parts |-> [p \in 1..Len(st.parts) |->
                  [program_id |-> st.parts[p].program_id,
                   tech |-> st.parts[p].tech,
                   contours |-> [c \in 1..Len(st.parts[p].contours) |->
                       [type |-> st.parts[p].contours[c].type,
                        hkstr |-> st.parts[p].contours[c].hkstr,
                        segments |-> st.parts[p].contours[c].segments,
                        id |-> ContoursBefore(st.parts, p) + c]]]]]

RECURSIVE ParseFrom(_, _)
ParseFrom(st, lines) ==
    IF lines = <<>> \/ st.status # "running" THEN st
    ELSE ParseFrom(ParseLine(st, Head(lines)), Tail(lines))

NoProgram == [sheet |-> [width |-> 0, height |-> 0], parts |-> <<>>]

\* parse_hk_mpf(text): the Program, or the exception that ends the call
parse_hk_mpf(text) ==
    LET st == ParseFrom(ParserInit, SplitLines(text))
    IN IF st.status = "running"
       THEN [status |-> "ok", program |-> Finish(st)]
       ELSE [status |-> st.status, program |-> NoProgram]

----------------------------------------------------------------------------
(* _contour_to_ring, parts_to_polygons, compute_skeleton *)
(*                                                                         *)
(* A geometry is [geom_type, is_empty, coords, minus]: coords are its      *)
(* points (the member polygons for a union) and minus the polygons cut out *)
(* of it, which are kept as written and not evaluated.                     *)

\* tol = 1e-4
tol == 10

\* math.hypot(p[0] - q[0], p[1] - q[1]) > tol; a point off the grid is taken
\* to be farther than tol from every other point
Far(p, q) ==
    IF Len(p) = 2 /\ Len(q) = 2
    THEN LET dx == Abs(p[1] - q[1])
             dy == Abs(p[2] - q[2])
         IN dx > tol \/ dy > tol \/ dx * dx + dy * dy > tol * tol
    ELSE p # q

\* the loop over contour["segments"] that collects pts
RECURSIVE CollectPts(_, _)
CollectPts(pts, segments) ==
    IF segments = <<>> THEN pts
    ELSE LET seg == Head(segments)
             more == IF seg.kind = "line"
                     THEN (IF pts = <<>> THEN <<seg.a, seg.b>> ELSE <<seg.b>>)
                     ELSE (IF pts # <<>> /\ pts[Len(pts)] = seg.points[1]
                           THEN Tail(seg.points) ELSE seg.points)
         IN CollectPts(pts \o more, Tail(segments))

\* None is <<>>
contour_to_ring_open_dropped(contour) ==
    LET pts == CollectPts(<<>>, contour.segments)
    IN IF Len(pts) < 4 \/ Far(pts[1], pts[Len(pts)]) THEN <<>> ELSE pts

contour_to_ring(contour) ==
    LET pts == CollectPts(<<>>, contour.segments)
    IN IF Len(pts) < 4 THEN <<>>
       ELSE IF Far(pts[1], pts[Len(pts)]) THEN Append(pts, pts[1])
       ELSE pts

Geom(type, empty, coords) ==
    [geom_type |-> type, is_empty |-> empty, coords |-> coords, minus |-> <<>>]
EmptyPolygon == Geom("Polygon", TRUE, <<>>)
LineString(a, b) == Geom("LineString", FALSE, <<a, b>>)

\* g.buffer(0): a polygonal geometry is kept (normalized), the zero-width
\* buffer of a line or a point is the empty polygon
buffer0(g) ==
    IF g.geom_type \in {"Polygon", "MultiPolygon"} THEN g ELSE EmptyPolygon

\* unary_union(polys)
unary_union(polys) == Geom("MultiPolygon", polys = <<>>, polys)

\* g.difference(other): other is recorded, the cut is not evaluated
difference(g, other) ==
    IF g.is_empty \/ other.is_empty THEN g ELSE [g EXCEPT !.minus = Append(@, other)]

\* ln.intersection(poly) for a chord ln of the rectangle poly was cut from
intersection(ln, poly) ==
    IF poly.is_empty THEN Geom("LineString", TRUE, <<>>)
    ELSE [ln EXCEPT !.minus = poly.minus]

\* the rings of one part's contours, None included, in contour order
RingsOf(part) == [c \in 1..Len(part.contours) |-> contour_to_ring(part.contours[c])]

\* one part of parts_to_polygons: its outer and hole rings; a part without
\* outer ring gives no polygon.  (Whether shapely finds a ring's polygon
\* empty, or a hole outside the outers, is not evaluated.)
PartPolygon(part) ==
    LET rings == RingsOf(part)
        Of(type) == SelectSeq([c \in 1..Len(rings) |->
                                  IF part.contours[c].type = type THEN rings[c] ELSE <<>>],
                              LAMBDA r : r # <<>>)
    IN [outers |-> Of("outer"), holes |-> Of("hole")]

parts_to_polygons(model) ==
    SelectSeq([p \in 1..Len(model.parts) |-> PartPolygon(model.parts[p])],
              LAMBDA poly : poly.outers # <<>>)

\* the five candidate lines: y = h * k / 4 for k = 1, 2, 3, then
\* x = w * k / 3 for k = 1, 2 (rounded down to the unit)
Candidates(w, h) ==
    [k \in 1..3 |-> LineString(<<0, (h * k) \div 4>>, <<w, (h * k) \div 4>>)]
        \o [k \in 1..2 |-> LineString(<<(w * k) \div 3, 0>>, <<(w * k) \div 3, h>>)]

\* what one candidate adds to cut_lines
ClipCandidate(ln, skeleton, parts_union) ==
    LET clipped == intersection(ln, skeleton)
    IN IF clipped.is_empty THEN <<>>
       ELSE LET clipped2 == buffer0(difference(clipped, parts_union))
            IN IF clipped2.is_empty THEN <<>>
               ELSE IF clipped2.geom_type = "LineString" THEN <<clipped2>>
               \* a MultiLineString would add its members longer than 1e-4;
               \* buffer(0) returns no geometry of that type
               ELSE <<>>

NoModel2 == [status |-> "none", rings |-> <<>>, cut_lines |-> <<>>, skeletonCuts |-> <<>>]

compute_skeleton(model) ==
    LET w == model.sheet.width
        h == model.sheet.height
        sheet_poly == buffer0(Geom("Polygon", w = 0 \/ h = 0,
                                   <<(<<0, 0>>), (<<w, 0>>), (<<w, h>>), (<<0, h>>)>>))
        part_polys == parts_to_polygons(model)
        parts_union == IF part_polys # <<>> THEN buffer0(unary_union(part_polys))
                       ELSE EmptyPolygon
        skeleton == buffer0(difference(sheet_poly, parts_union))
        candidates == Candidates(w, h)
        cut_lines == Flatten([i \in 1..Len(candidates) |->
                                 ClipCandidate(candidates[i], skeleton, parts_union)])
    IN [status |-> "ok",
        rings |-> [p \in 1..Len(model.parts) |-> RingsOf(model.parts[p])],
        cut_lines |-> cut_lines,
        skeletonCuts |-> [i \in 1..Len(cut_lines) |->
                             [id |-> i, a |-> cut_lines[i].coords[1],
                              b |-> cut_lines[i].coords[Len(cut_lines[i].coords)]]]]

----------------------------------------------------------------------------
(* Request handlers: cutplan_upload, api_cutplan_reorder and                *)
(* api_compute_skeleton                                                     *)

NoFile == [exists |-> FALSE, text |-> <<>>]
File(text) == [exists |-> TRUE, text |-> text]

\* Path.read_text(): text mode, every CRLF read as LF
ReadText(file) ==
    [i \in 1..Len(file.text) |->
        [file.text[i] EXCEPT !.eol = IF @ = "CRLF" THEN "LF" ELSE @]]

\* cutplan_upload: the bytes go to a new mpf file and are parsed; a CutJob
\* row and its "parsed" CutArtifact row are committed.  An exception of
\* parse_hk_mpf ends the request before any row is added.
cutplan_upload(content) ==
    LET parsed == parse_hk_mpf(content)
    IN IF parsed.status # "ok" THEN
           /\ response' = "Internal Server Error"
           /\ UNCHANGED <<jobs, gen, artifacts>>
       ELSE
           /\ Len(jobs) < MaxJobs
           /\ Len(artifacts) < MaxArtifacts
           /\ jobs' = Append(jobs, File(content))
           /\ gen' = Append(gen, [reordered |-> NoFile, skeleton |-> NoFile])
           /\ artifacts' = Append(artifacts,
                   [job_id |-> Len(jobs) + 1, kind |-> "parsed", file_path |-> "",
                    json_text |-> parsed.program])
           /\ response' = "redirect"

\* the json_text of the job's "parsed" row
ParsedModel(job_id) ==
    artifacts[CHOOSE i \in 1..Len(artifacts) :
                 artifacts[i].job_id = job_id /\ artifacts[i].kind = "parsed"].json_text

\* api_compute_skeleton
api_compute_skeleton(job_id) ==
    IF job_id \notin 1..Len(jobs) THEN
        /\ response' = "Job not found"
        /\ UNCHANGED <<jobs, gen, artifacts>>
    ELSE
        LET model == ParsedModel(job_id)
            m2 == compute_skeleton(model)
            original == ReadText(jobs[job_id])
            skel_text == generate_skeleton_mpf(original, m2.skeletonCuts).text
        IN /\ Len(artifacts) < MaxArtifacts
           /\ gen' = [gen EXCEPT ![job_id].skeleton = File(skel_text)]
           /\ artifacts' = Append(artifacts,
                  [job_id |-> job_id, kind |-> "skeleton",
                   file_path |-> "gen/job_<id>_skeleton.mpf",
                   json_text |-> [model |-> model, skeletonCuts |-> m2.skeletonCuts]])
           /\ response' = "ok"
           /\ UNCHANGED jobs

\* whether api_cutplan_reorder goes on to write_text / db.add / commit after
\* export_reordered_mpf
ReachesWriteOnMismatch(status) == status \in {"ok", "length_mismatch"}

ReachesWrite(status) == status = "ok"

\* api_cutplan_reorder: the request body is valid (a list of int) or not
api_cutplan_reorder(job_id, valid, ord) ==
    IF ~valid THEN
        /\ response' = "order must be list[int]"
        /\ UNCHANGED <<jobs, gen, artifacts>>
    ELSE IF job_id \notin 1..Len(jobs) THEN
        /\ response' = "Job not found"
        /\ UNCHANGED <<jobs, gen, artifacts>>
    ELSE
        LET original == ReadText(jobs[job_id])
            r == export_reordered_mpf(original, ord)
        IN /\ IF ReachesWrite(r.status) THEN
                  /\ Len(artifacts) < MaxArtifacts
                  /\ gen' = [gen EXCEPT ![job_id].reordered = File(r.text)]
                  /\ artifacts' = Append(artifacts,
                         [job_id |-> job_id, kind |-> "reordered",
                          file_path |-> "gen/job_<id>_reordered.mpf", json_text |-> ord])
              ELSE UNCHANGED <<gen, artifacts>>
           /\ response' = r.status
           /\ UNCHANGED jobs

TextNoBlock == [i \in 1..1 |-> Chunk(LineG1, "CRLF")]
TextOneBlock == Join(<<LineG1, LineHKSTR, LineHKSTO>>)
TextTwoBlocks ==
    [i \in 1..6 |-> Chunk(<<LineG1, LineHKSTR, LineG1, LineHKSTO, LineHKSTR, LineHKSTO>>[i], "LF")]
ApiTexts == {TextNoBlock, TextOneBlock, TextTwoBlocks}
ApiOrders == {<<>>, <<1>>, <<3>>, <<2, 1>>, <<1, 1>>}

InitApi ==
    /\ pc = "start" /\ original_text = <<>> /\ order = <<>> /\ skeletonCuts = <<>>
    /\ ret = NoReturn /\ skel = NoSkel /\ rounds = 0
    /\ jobs = <<>> /\ gen = <<>> /\ artifacts = <<>> /\ response = "none"
    /\ ParserIdle
    /\ LoopIdle

Upload ==
    /\ \E content \in ApiTexts : cutplan_upload(content)
    /\ UNCHANGED callVars
    /\ UNCHANGED parseVars
    /\ UNCHANGED loopVars

Reorder ==
    /\ \E job_id \in 1..MaxJobs, valid \in BOOLEAN, ord \in ApiOrders :
          api_cutplan_reorder(job_id, valid, ord)
    /\ UNCHANGED callVars
    /\ UNCHANGED parseVars
    /\ UNCHANGED loopVars

Skeleton ==
    /\ \E job_id \in 1..MaxJobs : api_compute_skeleton(job_id)
    /\ UNCHANGED callVars
    /\ UNCHANGED parseVars
    /\ UNCHANGED loopVars

NextApi == Upload \/ Reorder \/ Skeleton

SpecApi == InitApi /\ [][NextApi]_vars

\* C6: a reorder request that fails with length mismatch writes no file and
\* adds no artifact row: gen directory and artifact store stay as they were.
C6_MismatchWritesNothing ==
    [][response' = "length_mismatch" => gen' = gen /\ artifacts' = artifacts]_vars

C6_Witness ==
    /\ response = "length_mismatch"
    /\ \E j \in 1..Len(gen) : gen[j].reordered.exists
    /\ \E i \in 1..Len(artifacts) : artifacts[i].kind = "reordered"

\* the file a row's file_path names, as it is in the gen directory g
FileAt(g, row) ==
    IF row.kind = "reordered" THEN g[row.job_id].reordered
    ELSE IF row.kind = "skeleton" THEN g[row.job_id].skeleton
    ELSE NoFile

\* C16: a text artifact, once written, is never changed: whatever reorder
\* and compute_skeleton requests follow, the file every existing artifact row
\* refers to keeps the text it had.
C16_ArtifactsImmutable ==
    [][\A i \in 1..Len(artifacts) : FileAt(gen', artifacts[i]) = FileAt(gen, artifacts[i])]_vars

----------------------------------------------------------------------------
(* Specification of the parser: the loop of parse_hk_mpf over a text whose  *)
(* lines are drawn from one of four sets, then its return                   *)

NPrefix(n) == <<Tok("N", FALSE, <<Num(n)>>), W(" ")>>
Call(k, v) == <<Tok(k, TRUE, v)>>
Addr(k, n) == <<W(" "), Tok(k, FALSE, <<Num(n)>>)>>

LineHKINI == Call("HKINI", <<Num(2), Num(10), Num(20)>>)
LineHKINIShort == Call("HKINI", <<Num(2), Num(10)>>)
LineNHKINI == NPrefix(10) \o Call("HKINI", <<Num(2), Num(30), Num(40)>>)
LineHKOSTNoArgs == Call("HKOST", <<>>)
\* 1 followed by 400 zeros as program id
LineHKOSTHuge == Call("HKOST", <<Num(0), Num(0), Num(0), Dec(1, -400), Num(1)>>)
LineHKSTRNoArgs == Call("HKSTR", <<>>)
LineHKCUT == <<W("HKCUT")>>
LineG1X == <<W("G1")>> \o Addr("X", 1)
LineNG1 == NPrefix(20) \o <<W("G1")>> \o Addr("X", 2) \o Addr("Y", 2)
CommandLines ==
    {LineHKINI, LineHKINIShort, LineNHKINI, LineHKOSTNoArgs, LineHKOSTHuge,
     LineHKSTRNoArgs, LineHKCUT, LineNG1, LineG1X, LineM30}

LineHKOST5 == Call("HKOST", <<Num(1), Num(2), Num(0), Num(5), Num(7)>>)
LineNHKOST5 == NPrefix(30) \o Call("HKOST", <<Num(3), Num(0), Num(0), Num(5), Num(7)>>)
LineHKOST0 == Call("HKOST", <<Num(0), Num(0), Num(0), Num(0), Num(1)>>)
LineN5HKSTR == NPrefix(5) \o Call("HKSTR", <<Num(0), Num(1), Num(0), Num(0)>>)
LineN0HKSTR == NPrefix(0) \o Call("HKSTR", <<Num(1), Num(1), Num(1), Num(1)>>)
LineNHKCUT == NPrefix(40) \o <<W("HKCUT")>>
LineHKPED == NPrefix(50) \o <<W("HKPED")>>
PlacementLines ==
    {LineHKOST5, LineNHKOST5, LineHKOST0, LineN5HKSTR, LineN0HKSTR, LineHKSTR,
     LineNHKCUT, LineG1X, LineHKPED}

LineG1Y == <<W("G1")>> \o Addr("Y", 1)
\* from (0, 0): centre (0, 1), end = start
LineG2Full == <<W("G2")>> \o Addr("X", 0) \o Addr("Y", 0) \o Addr("I", 0) \o Addr("J", 1)
\* from (0, 0): a quarter turn about (0, 1) to (1, 1)
LineG3 == <<W("G3")>> \o Addr("X", 1) \o Addr("Y", 1) \o Addr("I", 0) \o Addr("J", 1)
LineNG3 == NPrefix(60) \o LineG3
LineG2NoJ == <<W("G2")>> \o Addr("X", 1) \o Addr("Y", 1) \o Addr("I", 0)
MotionLines ==
    {LineHKSTRNoArgs, LineHKCUT, LineG1X, LineG1Y, LineG2Full, LineG3, LineNG3,
     LineG2NoJ, LineHKSTO}

LineHKINI2 == Call("HKINI", <<Num(2), Num(30), Num(40)>>)
\* "WHEN HKCUT", "WHEN HKSTO" and "WHEN G1 X1"
LineWhenHKCUT == <<W("WHEN"), W(" "), W("HKCUT")>>
LineWhenHKSTO == <<W("WHEN"), W(" "), W("HKSTO")>>
LineWhenG1 == <<W("WHEN"), W(" ")>> \o LineG1X
ControlLines ==
    {LineHKINI, LineHKINI2, LineHKINIShort, LineWhenHKCUT, LineWhenHKSTO,
     LineWhenG1, LineHKSTRNoArgs, LineHKCUT, LineG1X}

Dialects == {CommandLines, PlacementLines, MotionLines, ControlLines}

InitParse ==
    /\ pc = "start" /\ original_text = <<>> /\ order = <<>> /\ skeletonCuts = <<>>
    /\ ret = NoReturn /\ skel = NoSkel /\ rounds = 0
    /\ jobs = <<>> /\ gen = <<>> /\ artifacts = <<>> /\ response = "none"
    /\ dialect \in Dialects
    /\ parser = ParserInit
    /\ raw = <<>>
    /\ nread = 0
    /\ program = [status |-> "none", program |-> NoProgram]
    /\ model2 = NoModel2
    /\ reparsed = <<>>
    /\ LoopIdle

\* the loop takes the next line of the text
ReadLine ==
    /\ parser.status = "running"
    /\ program.status = "none"
    /\ nread < MaxParseLines
    /\ \E l \in dialect :
          /\ raw' = l
          /\ parser' = ParseLine(parser, l)
    /\ nread' = nread + 1
    /\ program' = IF parser'.status = "running" THEN program
                  ELSE [status |-> parser'.status, program |-> NoProgram]
    /\ UNCHANGED <<dialect, model2, reparsed, callVars, storeVars, loopVars>>

\* the text has no further line: parse_hk_mpf returns
Return ==
    /\ parser.status = "running"
    /\ program.status = "none"
    /\ program' = [status |-> "ok", program |-> Finish(parser)]
    /\ UNCHANGED <<dialect, parser, raw, nread, model2, reparsed, callVars, storeVars, loopVars>>

\* compute_skeleton is called on the returned Program
ComputeSkeleton ==
    /\ program.status = "ok"
    /\ model2.status = "none"
    /\ model2' = compute_skeleton(program.program)
    /\ UNCHANGED <<dialect, parser, raw, nread, program, reparsed, callVars, storeVars, loopVars>>

NextParse == ReadLine \/ Return \/ ComputeSkeleton

SpecParse == InitParse /\ [][NextParse]_vars

----------------------------------------------------------------------------
(* Properties of parse_hk_mpf, stated on the line just read *)

\* the loop has just consumed the line raw
JustRead == nread' = nread + 1
CommandWords ==
    {"HKINI", "HKOST", "HKSTR", "hkstr", "HKCUT", "HKSTO", "hksto", "HKPED",
     "WHEN", "G1", "G2", "G3"}
MentionsCommand(l) == \E i \in 1..Len(l) : l[i].k \in CommandWords

\* C11: parse never raises, whatever the text, and a line that names none of
\* the recognized commands leaves every local of the parser as it was.
C11_NeverRaisesUnknownSkipped ==
    [][JustRead =>
          /\ parser'.status = "running"
          /\ ~MentionsCommand(raw') => parser' = parser]_vars

ShortHKINI(l) == \E i \in 1..Len(l) : l[i].k = "HKINI" /\ l[i].call /\ Len(l[i].v) < 3
NoArgCall(l, kw) == \E i \in 1..Len(l) : l[i].k = kw /\ l[i].call /\ l[i].v = <<>>
HasAddr(l, k) == \E i \in 1..Len(l) : l[i].k = k /\ l[i].v # <<>>
ArcMissing(l) ==
    /\ \E i \in 1..Len(l) : l[i].k \in {"G2", "G3"}
    /\ \E k \in {"X", "Y", "I", "J"} : ~HasAddr(l, k)

OpenPart == IF parser.current_part = 0 THEN Len(parser.parts) + 1 ELSE parser.current_part
EmptyPart == [program_id |-> <<>>, tech |-> <<>>, offset |-> <<0, 0>>, contours |-> <<>>]
EmptyContour == [type |-> "outer", hkstr |-> <<>>, segments |-> <<>>]

NPrefixed(l) == Len(l) >= 3 /\ l[1].k = "N" /\ l[1].v # <<>> /\ l[2].k = " "
Bare(l) == SubSeq(l, 3, Len(l))
PrefixFreeWords == {"HKINI", "HKOST", "HKCUT", "HKSTO", "hksto", "HKPED", "G1", "G2", "G3"}

\* C13: a line with a leading N<number> changes the parser state exactly as
\* the same line without that prefix does, for HKINI, HKOST, HKCUT, HKSTO,
\* HKPED, G1, G2 and G3.
C13_NPrefixIrrelevant ==
    [][JustRead /\ NPrefixed(raw') /\ Bare(raw')[1].k \in PrefixFreeWords
          => parser' = ParseLine(parser, Bare(raw'))]_vars

IsHKSTRLine(l) == \E i \in 1..Len(l) : l[i].k \in {"HKSTR", "hkstr"} /\ l[i].call
\* the leading N<number> of a line, <<>> if it has none
LeadingN(l) == IF l # <<>> /\ l[1].k = "N" /\ l[1].v # <<>> THEN <<l[1].v[1].m>> ELSE <<>>
\* the parts opened by an HKOST line whose program_id is the number n
PartsWithId(n) == {p \in 1..Len(parser.parts) : n # <<>> /\ parser.parts[p].program_id = n}
NumContours(st, p) == IF p <= Len(st.parts) THEN Len(st.parts[p].contours) ELSE 0
\* where the claim lets the HKSTR line just read open its contours
Targets(l) == IF PartsWithId(LeadingN(l)) # {} THEN PartsWithId(LeadingN(l)) ELSE {OpenPart}

\* C14: an HKSTR line whose N<number> is the program_id of earlier HKOST
\* lines opens exactly one contour in each part registered under that id and
\* in no other part; any other HKSTR line opens exactly one contour, in the
\* current part (a new part with program_id None if none is open).  A G1
\* recorded afterwards appends to every contour that HKSTR opened the line
\* from the cursor to the target, shifted by that contour's part offset.
C14_Placement ==
    [][JustRead =>
          /\ IsHKSTRLine(raw') =>
                /\ Len(parser'.parts) =
                      IF Targets(raw') = {Len(parser.parts) + 1}
                      THEN Len(parser.parts) + 1 ELSE Len(parser.parts)
                /\ \A p \in 1..Len(parser'.parts) :
                      NumContours(parser', p) =
                          NumContours(parser, p) + (IF p \in Targets(raw') THEN 1 ELSE 0)
                /\ \A p \in 1..Len(parser'.parts) :
                      p > Len(parser.parts) => parser'.parts[p].program_id = <<>>
          /\ raw'[1].k = "G1" /\ parser.cut_on =>
                \A i \in 1..Len(parser.current_contours) :
                   LET act == parser.current_contours[i]
                       off == parser.parts[act.part].offset
                       old == parser.parts[act.part].contours[act.contour].segments
                       new == parser'.parts[act.part].contours[act.contour].segments
                   IN new = Append(old, [kind |-> "line",
                                         a |-> <<parser.x + off[1], parser.y + off[2]>>,
                                         b |-> <<parser'.x + off[1], parser'.y + off[2]>>])]_vars

\* what parse_hk_mpf returns for the text that ends with the line just read
Returned(st) == Finish(st).parts
ContourRefs(st) ==
    UNION {{<<p, c>> : c \in 1..Len(st.parts[p].contours)} : p \in 1..Len(st.parts)}
IdOf(st, ref) == Returned(st)[ref[1]].contours[ref[2]].id

\* C15: the contour ids of a returned Program are exactly 1..N, each used
\* once, and a contour opened by an earlier HKSTR line has a smaller id than
\* a contour opened by a later HKSTR line.
C15_IdsInDiscoveryOrder ==
    [][JustRead /\ parser'.status = "running" =>
          /\ {IdOf(parser', ref) : ref \in ContourRefs(parser')}
                 = 1..Cardinality(ContourRefs(parser'))
          /\ \A old \in ContourRefs(parser), new \in ContourRefs(parser') \ ContourRefs(parser) :
                 IdOf(parser', old) < IdOf(parser', new)]_vars

----------------------------------------------------------------------------
(* Properties of compute_skeleton and _contour_to_ring *)

SheetW == program.program.sheet.width
SheetH == program.program.sheet.height
\* v is num/den up to the rounding of the unit
IsFraction(v, num, den) == den * v <= num /\ num < den * (v + 1)

\* C17: for a sheet with width > 0 and height > 0 and zero parts,
\* compute_skeleton yields exactly 5 cuts with ids 1..5: the three full-width
\* chords at y = height/4, height/2, 3*height/4, then the two full-height
\* chords at x = width/3, 2*width/3.
C17_FiveFullChords ==
    model2.status = "ok" /\ SheetW > 0 /\ SheetH > 0 /\ program.program.parts = <<>>
        => /\ Len(model2.skeletonCuts) = 5
           /\ \A i \in 1..5 : model2.skeletonCuts[i].id = i
           /\ \A k \in 1..3 :
                 /\ model2.skeletonCuts[k].a[1] = 0
                 /\ model2.skeletonCuts[k].b[1] = SheetW
                 /\ model2.skeletonCuts[k].a[2] = model2.skeletonCuts[k].b[2]
                 /\ IsFraction(model2.skeletonCuts[k].a[2], SheetH * k, 4)
           /\ \A k \in 1..2 :
                 /\ model2.skeletonCuts[3 + k].a[2] = 0
                 /\ model2.skeletonCuts[3 + k].b[2] = SheetH
                 /\ model2.skeletonCuts[3 + k].a[1] = model2.skeletonCuts[3 + k].b[1]
                 /\ IsFraction(model2.skeletonCuts[3 + k].a[1], SheetW * k, 3)

FirstPoint(seg) == IF seg.kind = "line" THEN seg.a ELSE seg.points[1]
LastPoint(seg) == IF seg.kind = "line" THEN seg.b ELSE seg.points[Len(seg.points)]
\* the points of a contour's chain: every segment's points, a line's start
\* point only for the first segment and a polyline's first point only where
\* it is not the point before it
ChainPoints(contour) ==
    LET segs == contour.segments
    IN Flatten([i \in 1..Len(segs) |->
          IF segs[i].kind = "line"
          THEN (IF i = 1 THEN <<segs[i].a, segs[i].b>> ELSE <<segs[i].b>>)
          ELSE (IF i > 1 /\ LastPoint(segs[i - 1]) = segs[i].points[1]
                THEN Tail(segs[i].points) ELSE segs[i].points)])
\* first and last point farther apart than 1e-4
Unclosed(contour) ==
    /\ contour.segments # <<>>
    /\ Far(FirstPoint(contour.segments[1]),
           LastPoint(contour.segments[Len(contour.segments)]))
ProgramContours ==
    UNION {{<<p, c>> : c \in 1..Len(program.program.parts[p].contours)} :
              p \in 1..Len(program.program.parts)}
ContourAt(ref) == program.program.parts[ref[1]].contours[ref[2]]
RingAt(ref) == model2.rings[ref[1]][ref[2]]

\* C18 as stated: a contour whose chain never closes (first and last point
\* farther apart than 1e-4) does not become a ring.
C18_UnclosedDropped ==
    model2.status = "ok" =>
        \A ref \in ProgramContours : Unclosed(ContourAt(ref)) => RingAt(ref) = <<>>

\* C18, amended: a contour whose chain has fewer than 4 points becomes no
\* ring; a chain of 4 or more points always becomes a ring, and when its
\* first and last point are farther apart than 1e-4 the ring is the chain
\* closed by a copy of its first point, else the chain itself.
C18_RingClosure ==
    model2.status = "ok" =>
        \A ref \in ProgramContours :
            LET chain == ChainPoints(ContourAt(ref))
            IN /\ Len(chain) < 4 => RingAt(ref) = <<>>
               /\ Len(chain) >= 4 =>
                     RingAt(ref) = IF Unclosed(ContourAt(ref))
                                   THEN chain \o <<chain[1]>> ELSE chain

\* an unclosed chain of at least 4 points was closed into a ring, and a
\* shorter one was dropped
C18_Witness ==
    /\ model2.status = "ok"
    /\ \E ref \in ProgramContours :
          /\ Unclosed(ContourAt(ref))
          /\ Len(ChainPoints(ContourAt(ref))) >= 4
          /\ Len(RingAt(ref)) = Len(ChainPoints(ContourAt(ref))) + 1
          /\ RingAt(ref)[Len(RingAt(ref))] = RingAt(ref)[1]
    /\ \E ref \in ProgramContours :
          /\ Unclosed(ContourAt(ref))
          /\ RingAt(ref) = <<>>

----------------------------------------------------------------------------
(* Properties of the recorded segments *)

Val(d) == d.m * Pow10(5 - d.e)
\* the G2/G3 line just read is complete and is recorded
ArcRecorded ==
    /\ JustRead
    /\ raw'[1].k \in {"G2", "G3"}
    /\ \A k \in {"X", "Y", "I", "J"} : HasAddr(raw', k)
    /\ parser.cut_on /\ parser.current_contours # <<>>
\* the segment the line just read appended to the i-th open contour
NewSegment(i) ==
    LET act == parser.current_contours[i]
        segs == parser'.parts[act.part].contours[act.contour].segments
    IN segs[Len(segs)]
\* the arc centre in the i-th open contour: cursor + part offset + (I, J)
Centre(i) ==
    LET off == parser.parts[parser.current_contours[i].part].offset
    IN <<parser.x + off[1] + Val(ArgOf(raw', "I")), parser.y + off[2] + Val(ArgOf(raw', "J"))>>
\* the angle of point p about the centre c as <<num, den>>, in units of pi/4
AngleAbout(p, c) ==
    IF Len(p) = 2 THEN <<atan2(p[2] - c[2], p[1] - c[1]), 1>>
    ELSE <<atan2(p[4], p[3]) * p[6] + p[5], p[6]>>
\* the angle falls from p to q (q lies clockwise of p, less than half a turn)
AngleFalls(p, q, c) ==
    LET a == AngleAbout(p, c)
        b == AngleAbout(q, c)
        turn == 8 * a[2] * b[2]
        d == (a[1] * b[2] - b[1] * a[2]) % turn
    IN 0 < d /\ 2 * d < turn

\* C19: the polyline of every G2 arc has at least 8 points whose angle about
\* the arc centre strictly decreases from the first point to the last, and
\* that of every G3 arc has at least 8 points whose angle strictly increases,
\* an arc whose end point equals its start point included.
C19_ArcMonotone ==
    [][ArcRecorded =>
          \A i \in 1..Len(parser.current_contours) :
             LET pts == NewSegment(i).points
             IN /\ NewSegment(i).kind = "polyline"
                /\ Len(pts) >= 8
                /\ \A k \in 1..(Len(pts) - 1) :
                      IF raw'[1].k = "G2"
                      THEN AngleFalls(pts[k], pts[k + 1], Centre(i))
                      ELSE AngleFalls(pts[k + 1], pts[k], Centre(i))]_vars

\* C20: in every contour of a returned Program the segments form a
\* continuous chain: the end point of each segment (b of a line, last point
\* of a polyline) is the start point of the next (a of a line, first point of
\* a polyline).
C20_ContinuousChain ==
    program.status = "ok" =>
        \A ref \in ProgramContours :
            LET segs == ContourAt(ref).segments
            IN \A i \in 1..(Len(segs) - 1) : LastPoint(segs[i]) = FirstPoint(segs[i + 1])

----------------------------------------------------------------------------
(* Properties of the sheet and of the control lines *)

\* the line is taken as HKINI and carries at least 3 numbers
FullHKINI(l) == l # <<>> /\ l[1].k = "HKINI" /\ l[1].call /\ Len(l[1].v) >= 3
SheetUnset(st) == st.sheet = [width |-> <<>>, height |-> <<>>]

\* C21: the sheet is 0 x 0 until an HKINI line with at least 3 numbers is
\* read; that line sets width to its 2nd and height to its 3rd number, and
\* once the sheet is set no later line, HKINI included, changes it.
C21_SheetSetOnce ==
    [][
        /\ JustRead =>
              IF FullHKINI(raw') /\ SheetUnset(parser)
              THEN parser'.sheet = [width |-> <<Val(raw'[1].v[2])>>,
                                    height |-> <<Val(raw'[1].v[3])>>]
              ELSE parser'.sheet = parser.sheet
        /\ (program.status = "none" /\ program'.status = "ok" /\ SheetUnset(parser)) =>
              program'.program.sheet = [width |-> 0, height |-> 0]
    ]_vars

StartsWithWHEN(l) == l # <<>> /\ l[1].k = "WHEN"

\* C22: a line that starts with WHEN leaves every local of the parser as it
\* was, whatever else the line holds.
C22_WhenIgnored ==
    [][JustRead /\ StartsWithWHEN(raw') => parser' = parser]_vars

\* the line is taken as G1
IsG1Line(l) == l # <<>> /\ l[1].k = "G1"
\* the number of the address letter k of a G1 line, cur if the line has none
Target(l, k, cur) ==
    IF \E i \in 2..Len(l) : l[i].k = k /\ l[i].v # <<>> /\ IsSpace(l[i - 1])
    THEN Val(l[CHOOSE i \in 2..Len(l) : l[i].k = k /\ l[i].v # <<>> /\ IsSpace(l[i - 1])].v[1])
    ELSE cur
IsOpen(p, c) ==
    \E i \in 1..Len(parser.current_contours) :
        parser.current_contours[i].part = p /\ parser.current_contours[i].contour = c
\* the parts after the line from the cursor to <<nx, ny>> is appended to
\* every open contour, shifted by the offset of the contour's part
WithLine(nx, ny) ==
    [p \in 1..Len(parser.parts) |->
        LET part == parser.parts[p]
            seg == [kind |-> "line",
                    a |-> <<parser.x + part.offset[1], parser.y + part.offset[2]>>,
                    b |-> <<nx + part.offset[1], ny + part.offset[2]>>]
        IN [part EXCEPT !.contours =
              [c \in 1..Len(part.contours) |->
                  IF IsOpen(p, c)
                  THEN [part.contours[c] EXCEPT !.segments = Append(@, seg)]
                  ELSE part.contours[c]]]]

\* C23: a G1 line read while cutting is on and a contour is open appends the
\* line from cursor + offset to target + offset to every open contour and
\* moves the cursor to the target, a missing X or Y being the cursor's; read
\* in any other state it appends nothing and leaves the cursor.
C23_G1Honoured ==
    [][JustRead /\ IsG1Line(raw') =>
          LET nx == Target(raw', "X", parser.x)
              ny == Target(raw', "Y", parser.y)
          IN IF parser.cut_on /\ parser.current_contours # <<>>
             THEN parser' = [parser EXCEPT !.parts = WithLine(nx, ny), !.x = nx, !.y = ny]
             ELSE parser' = parser]_vars

\* "G1 X1" was read with two contours open in parts of different offsets, and
\* each got the line shifted by its own offset
C23_Witness ==
    /\ raw = LineG1X
    /\ parser.x = Val(Num(1)) /\ parser.y = 0
    /\ Len(parser.current_contours) = 2
    /\ \A i \in 1..2 :
          LET act == parser.current_contours[i]
              segs == parser.parts[act.part].contours[act.contour].segments
          IN /\ segs # <<>>
             /\ segs[Len(segs)].a = <<act.offset[1], act.offset[2]>>
             /\ segs[Len(segs)].b = <<Val(Num(1)) + act.offset[1], act.offset[2]>>
    /\ parser.current_contours[1].offset # parser.current_contours[2].offset

----------------------------------------------------------------------------
(* Properties of HKSTO and HKPED *)

HasWord(l, ws) == \E i \in 1..Len(l) : l[i].k \in ws
\* the line is taken as HKSTO or HKPED: it holds the word and none of the
\* commands that are looked for before it
IsHKSTOLine(l) ==
    /\ HasWord(l, {"HKSTO", "hksto"})
    /\ ~HasWord(l, {"HKINI", "HKOST", "HKSTR", "hkstr", "HKCUT"})
IsHKPEDLine(l) ==
    /\ HasWord(l, {"HKPED"})
    /\ ~HasWord(l, {"HKINI", "HKOST", "HKSTR", "hkstr", "HKCUT", "HKSTO", "hksto"})
IsOpenIn(st, p, c) ==
    \E i \in 1..Len(st.current_contours) :
        st.current_contours[i].part = p /\ st.current_contours[i].contour = c
SegmentsOf(st, ref) == st.parts[ref[1]].contours[ref[2]].segments

\* C24: an HKSTO or HKPED line leaves cutting off and no contour open; a
\* line adds a segment only to contours that are open, and only while
\* cutting is on; cutting is switched on by an HKCUT line only and a contour
\* is opened by an HKSTR line only, which opens new contours, never one that
\* existed before.  So after HKSTO/HKPED no motion line adds a segment until
\* an HKSTR and an HKCUT line have been read, and never to an earlier
\* contour.  HKPED also clears the current part, which stays cleared until an
\* HKOST or HKSTR line; an HKSTR line read then that matches no registered
\* part opens its contour in a new part.
C24_StopEndsCutting ==
    [][JustRead /\ parser'.status = "running" =>
          /\ IsHKSTOLine(raw') \/ IsHKPEDLine(raw') =>
                ~parser'.cut_on /\ parser'.current_contours = <<>>
          /\ IsHKPEDLine(raw') => parser'.current_part = 0
          /\ \A ref \in ContourRefs(parser) :
                /\ SegmentsOf(parser', ref) # SegmentsOf(parser, ref) =>
                      parser.cut_on /\ IsOpenIn(parser, ref[1], ref[2])
                /\ IsOpenIn(parser', ref[1], ref[2]) => IsOpenIn(parser, ref[1], ref[2])
          /\ \A ref \in ContourRefs(parser') \ ContourRefs(parser) :
                IsHKSTRLine(raw') /\ SegmentsOf(parser', ref) = <<>>
          /\ parser'.current_contours # <<>> /\ parser.current_contours = <<>> =>
                IsHKSTRLine(raw')
          /\ parser'.cut_on /\ ~parser.cut_on => HasWord(raw', {"HKCUT"})
          /\ parser.current_part = 0 /\ parser'.current_part # 0 =>
                HasWord(raw', {"HKOST", "HKSTR", "hkstr"})
          /\ (/\ IsHKSTRLine(raw') /\ parser.current_part = 0
              /\ PartsWithId(LeadingN(raw')) = {}) =>
                /\ Len(parser'.parts) = Len(parser.parts) + 1
                /\ parser'.current_part = Len(parser'.parts)
                /\ Len(parser'.parts[Len(parser'.parts)].contours) = 1]_vars

\* "G1 Y1" was read after HKSTO had closed a contour that holds one line: the
\* contour got nothing more and the cursor stayed
C24_Witness ==
    /\ raw = LineG1Y
    /\ ~parser.cut_on /\ parser.current_contours = <<>>
    /\ parser.y = 0
    /\ \E ref \in ContourRefs(parser) : Len(SegmentsOf(parser, ref)) = 1

----------------------------------------------------------------------------
(* Further properties of export_reordered_mpf *)

IsIdentity(ord) == \A k \in 1..Len(ord) : ord[k] = k
IsPermutation(ord) == {ord[k] : k \in 1..Len(ord)} = 1..Len(ord)
\* how often the line l occurs in the lines ls
Count(l, ls) == Cardinality({i \in 1..Len(ls) : ls[i] = l})

\* C25: reorder with the identity order [1, ..., n] on a text of n blocks
\* returns the lines of the original text, in their order.
C25_IdentityOrder ==
    (pc = "done" /\ ret.status = "ok" /\ IsIdentity(order)) => ret.out = OrigLines

\* C26: when order is a permutation of 1..n, every line occurs in the output
\* as often as in the original text.
C26_NoLineLostOrDuplicated ==
    (pc = "done" /\ ret.status = "ok" /\ IsPermutation(order)) =>
        \A l \in ReorderLines : Count(l, ret.out) = Count(l, OrigLines)

\* the contours of the Program that parse_hk_mpf returns for the original
\* text
ParsedOriginal == parse_hk_mpf(original_text).program
ParsedContours ==
    UNION {{ParsedOriginal.parts[p].contours[c] :
               c \in 1..Len(ParsedOriginal.parts[p].contours)} :
              p \in 1..Len(ParsedOriginal.parts)}
\* the numbers of the HKSTR call that starts the block
StartNumbers(block) ==
    LET l == block[1]
        t == l[CHOOSE i \in 1..Len(l) : l[i].k \in {"HKSTR", "hkstr"} /\ l[i].call]
    IN [i \in 1..Len(t.v) |-> Val(t.v[i])]

\* C27: the blocks reorder finds are as many as the contours parse returns
\* for the same text, and the k-th block is the text of the contour with id
\* k: it starts with that contour's HKSTR line.
C27_BlocksAreContours ==
    pc = "done" =>
        /\ Len(ret.blocks) = Cardinality(ParsedContours)
        /\ \A k \in 1..Len(ret.blocks) :
              \E c \in ParsedContours : c.id = k /\ c.hkstr = StartNumbers(ret.blocks[k])

----------------------------------------------------------------------------
(* Specification of the round trip: generate_skeleton_mpf on an original    *)
(* program, and parse_hk_mpf on the original and on the generated text      *)

\* the original programs: the empty text; a sheet and one part with a
\* closed-off contour, then the end marker; the same without HKPED and end
\* marker; a contour still open at the end marker; a part whose program id is
\* the line number of the first generated HKSTR; a part after the end marker
RoundTripTexts ==
    TextsOf({<<>>,
             <<LineHKINI, LineHKOST5, LineN5HKSTR, LineHKCUT, LineG1X, LineHKSTO,
               LineHKPED, LineM30>>,
             <<LineHKINI, LineHKOST5, LineN5HKSTR, LineHKCUT, LineG1X, LineHKSTO>>,
             <<LineHKSTRNoArgs, LineHKCUT, LineG1X, LineHKEND>>,
             <<LineHKOSTAt(2, FirstCutLineNo), LineM30>>,
             <<LineM30, LineHKOST5>>})

NotParsed == [status |-> "none", program |-> NoProgram]

InitRoundTrip ==
    /\ pc = "start"
    /\ original_text \in RoundTripTexts
    /\ skeletonCuts \in CutLists
    /\ order = <<>> /\ ret = NoReturn /\ skel = NoSkel /\ rounds = 0
    /\ jobs = <<>> /\ gen = <<>> /\ artifacts = <<>> /\ response = "none"
    /\ dialect = {} /\ parser = <<>> /\ raw = <<>> /\ nread = 0 /\ model2 = <<>>
    /\ program = NotParsed
    /\ reparsed = NotParsed
    /\ LoopIdle

\* parse_hk_mpf(original_text)
ParseOriginal ==
    /\ program = NotParsed
    /\ program' = parse_hk_mpf(original_text)
    /\ UNCHANGED <<dialect, parser, raw, nread, model2, reparsed, callVars, storeVars, loopVars>>

\* parse_hk_mpf on the text generate_skeleton_mpf returned
ParseGenerated ==
    /\ pc = "done"
    /\ reparsed = NotParsed
    /\ reparsed' = parse_hk_mpf(skel.text)
    /\ UNCHANGED <<dialect, parser, raw, nread, model2, program, callVars, storeVars, loopVars>>

NextRoundTrip == GenerateSkeleton \/ ParseOriginal \/ ParseGenerated

SpecRoundTrip == InitRoundTrip /\ [][NextRoundTrip]_vars

\* the line holds a word of the sheet, part or contour commands
IsContentLine(l) ==
    HasWord(l, {"HKINI", "HKOST", "HKSTR", "hkstr", "HKCUT", "HKSTO", "hksto", "HKPED",
                "G1", "G2", "G3"})
\* the insertion point follows all part content
ContentBeforeInsertion ==
    \A i \in (InsertionPoint + 1)..Len(OrigLines) : ~IsContentLine(OrigLines[i])
\* p is the point q written with 4 digits after the point
NearPoint(p, q) ==
    /\ p[1] - Val(q[1]) \in -5..5
    /\ p[2] - Val(q[2]) \in -5..5
IsLineFromTo(seg, p, q) ==
    seg.kind = "line" /\ NearPoint(seg.a, p) /\ NearPoint(seg.b, q)
BothParsed == program.status = "ok" /\ reparsed.status = "ok"

\* C28: when the insertion point follows all part content, parsing the
\* generated text gives the sheet and the parts of the original, then one
\* more part with program_id 990001 and tech 99 that holds one outer contour
\* per cut, each made of the lines a->a and a->b.
C28_RoundTrip ==
    (BothParsed /\ ContentBeforeInsertion) =>
        LET old == program.program
            new == reparsed.program
            n == Len(old.parts)
        IN /\ new.sheet = old.sheet
           /\ Len(new.parts) = n + 1
           /\ SubSeq(new.parts, 1, n) = old.parts
           /\ new.parts[n + 1].program_id = <<990001>>
           /\ new.parts[n + 1].tech = <<99>>
           /\ Len(new.parts[n + 1].contours) = Len(skeletonCuts)
           /\ \A k \in 1..Len(skeletonCuts) :
                 LET c == new.parts[n + 1].contours[k]
                 IN /\ c.type = "outer"
                    /\ Len(c.segments) = 2
                    /\ IsLineFromTo(c.segments[1], skeletonCuts[k].a, skeletonCuts[k].a)
                    /\ IsLineFromTo(c.segments[2], skeletonCuts[k].a, skeletonCuts[k].b)

----------------------------------------------------------------------------
(* Specification of concurrent reorder requests.  api_cutplan_reorder is a  *)
(* coroutine ("async def") served by the event loop: a request that has     *)
(* arrived is suspended at "await request.json()", and once resumed its     *)
(* coroutine keeps the loop until it awaits again or returns.  Its steps    *)
(* after the await are: compute (lines 493-504), write the file (505-506),  *)
(* add and commit the row and answer (508-511).                             *)

Tasks == {1, 2}
IdleTask == [pc |-> "idle", job_id |-> 0, valid |-> TRUE, order |-> <<>>, new_text |-> <<>>]

\* whether a coroutine that has reached position p keeps the event loop:
\* there is no await between line 493 and the return at line 511
HoldsLoopUntilWrite(p) == p = "computed"

HoldsLoop(p) == p \in {"computed", "written"}

InitLoop ==
    /\ pc = "start" /\ original_text = <<>> /\ order = <<>> /\ skeletonCuts = <<>>
    /\ ret = NoReturn /\ skel = NoSkel /\ rounds = 0
    /\ jobs = <<>> /\ gen = <<>> /\ artifacts = <<>> /\ response = "none"
    /\ ParserIdle
    /\ tasks = [t \in Tasks |-> IdleTask]
    /\ running = 0

\* cutplan_upload, run while no coroutine holds the loop
LoopUpload ==
    /\ running = 0
    /\ Len(artifacts) + Cardinality(Tasks) < MaxArtifacts
    /\ \E content \in ApiTexts : cutplan_upload(content)
    /\ UNCHANGED <<callVars, parseVars, loopVars>>

\* a reorder request arrives: its coroutine runs up to "await request.json()"
Arrive ==
    /\ running = 0
    /\ \E t \in Tasks :
          /\ tasks[t].pc = "idle"
          /\ \A u \in Tasks : u < t => tasks[u].pc # "idle"
          /\ \E job_id \in 1..MaxJobs, valid \in BOOLEAN, ord \in ApiOrders :
                /\ ~valid => ord = <<>>
                /\ tasks' = [tasks EXCEPT ![t] =
                       [IdleTask EXCEPT !.pc = "await_json", !.job_id = job_id,
                                        !.valid = valid, !.order = ord]]
    /\ UNCHANGED <<running, callVars, parseVars, storeVars>>

\* the body has arrived and the loop resumes the coroutine: lines 493-504
Resume ==
    /\ running = 0
    /\ \E t \in Tasks :
          /\ tasks[t].pc = "await_json"
          /\ LET job_id == tasks[t].job_id
                 Fail(answer) ==
                     /\ tasks' = [tasks EXCEPT ![t].pc = "done"]
                     /\ response' = answer
                     /\ UNCHANGED running
             IN IF ~tasks[t].valid THEN Fail("order must be list[int]")
                ELSE IF job_id \notin 1..Len(jobs) THEN Fail("Job not found")
                ELSE LET r == export_reordered_mpf(ReadText(jobs[job_id]), tasks[t].order)
                     IN IF ReachesWrite(r.status)
                        THEN /\ tasks' = [tasks EXCEPT ![t].pc = "computed",
                                                        ![t].new_text = r.text]
                             /\ running' = IF HoldsLoop("computed") THEN t ELSE 0
                             /\ UNCHANGED response
                        ELSE Fail(r.status)
    /\ UNCHANGED <<jobs, gen, artifacts, callVars, parseVars>>

\* out_path.write_text(new_text): lines 505-506
WriteFile ==
    /\ \E t \in Tasks :
          /\ tasks[t].pc = "computed"
          /\ running \in {0, t}
          /\ gen' = [gen EXCEPT ![tasks[t].job_id].reordered = File(tasks[t].new_text)]
          /\ tasks' = [tasks EXCEPT ![t].pc = "written"]
          /\ running' = IF HoldsLoop("written") THEN t ELSE 0
    /\ UNCHANGED <<jobs, artifacts, response, callVars, parseVars>>

\* db.add(CutArtifact(...)), db.commit() and the answer: lines 508-511
CommitRow ==
    /\ \E t \in Tasks :
          /\ tasks[t].pc = "written"
          /\ running \in {0, t}
          /\ artifacts' = Append(artifacts,
                 [job_id |-> tasks[t].job_id, kind |-> "reordered",
                  file_path |-> "gen/job_<id>_reordered.mpf",
                  json_text |-> tasks[t].order])
          /\ tasks' = [tasks EXCEPT ![t].pc = "done"]
          /\ response' = "ok"
          /\ running' = 0
    /\ UNCHANGED <<jobs, gen, callVars, parseVars>>

NextLoop == LoopUpload \/ Arrive \/ Resume \/ WriteFile \/ CommitRow

SpecLoop == InitLoop /\ [][NextLoop]_vars

AllDone == \A t \in Tasks : tasks[t].pc = "done"
ReorderedRows(j) ==
    {i \in 1..Len(artifacts) : artifacts[i].job_id = j /\ artifacts[i].kind = "reordered"}
MaxIn(S) == CHOOSE x \in S : \A y \in S : y <= x
\* the text reorder returns for job j and the order ord
ReorderedText(j, ord) == export_reordered_mpf(ReadText(jobs[j]), ord).text
\* the reordered file of job j is the text for the order of its latest row
LatestConsistent(j) ==
    ReorderedRows(j) # {} =>
        gen[j].reordered =
            File(ReorderedText(j, artifacts[MaxIn(ReorderedRows(j))].json_text))

\* a request for job j has written the file and not yet committed its row
MidWrite(t, j) == tasks[t].job_id = j /\ tasks[t].pc = "written"

\* C29: however two reorder requests are interleaved, the reordered file of
\* a job holds the blocks in the order recorded in the job's latest
\* "reordered" row whenever no request stands between its file write and
\* its row commit, so once both have finished; and while a request stands
\* there the file is still the text it wrote: no write or commit of the
\* other request comes between the two.
C29_WriteCommitTogether ==
    \A j \in 1..Len(jobs) :
        /\ (\A t \in Tasks : ~MidWrite(t, j)) => LatestConsistent(j)
        /\ \A t \in Tasks :
              MidWrite(t, j) =>
                  /\ gen[j].reordered = File(tasks[t].new_text)
                  /\ \A u \in Tasks \ {t} : ~MidWrite(u, j)

\* two requests for the same job overlapped: the first to arrive was the
\* last to commit, and the file holds its order, not the other's
C29_Witness ==
    /\ AllDone
    /\ tasks[1].job_id = tasks[2].job_id
    /\ tasks[1].order = <<2, 1>> /\ tasks[2].order = <<1, 1>>
    /\ LET j == tasks[1].job_id
           rows == ReorderedRows(j)
       IN /\ Cardinality(rows) = 2
          /\ artifacts[MaxIn(rows)].json_text = tasks[1].order
          /\ gen[j].reordered = File(tasks[1].new_text)
          /\ tasks[1].new_text # tasks[2].new_text

====
